---- MODULE Spec2Model ----
(***************************************************************************)
(* Model of the AxiDraw dual-mode plotter (dual_plotter.py) and of the     *)
(* stroke-font text layout engine (dual_text_lib.py).                      *)
(*                                                                         *)
(* Two DualPlotter instances, one built with use_device=True (dev) and one *)
(* with use_device=False (sim), receive the same calls.  Lengths are fixed *)
(* point: one tick is 1/10000 inch, so a coordinate rounded to 3 decimals  *)
(* is a multiple of 10 ticks.                                              *)
(***************************************************************************)
EXTENDS Integers, Sequences, FiniteSets, TLC

VARIABLES
    dev,      \* the DualPlotter built with use_device=True, and its driver
    sim,      \* the DualPlotter built with use_device=False
    files,    \* the files written by disconnect(): preview PNG and replay script
    ret,      \* what the latest connect() returned, per plotter, and the
              \* exception a call let escape to the caller, if any
    layout,   \* the text layout engine's locals during draw_wrapped_text
    rot,      \* the rotation proxy wrapped around the plotters, if any
    calls     \* history: the calls issued so far, in order

vars == <<dev, sim, files, ret, layout, rot, calls>>

(***************************************************************************)
(* Bounds and input sets                                                   *)
(***************************************************************************)
MaxCalls == 3

MaxOptCalls == 3

\* Cap on the length of the command log: outlinePage, which appends up to
\* 9 entries, is issued only while the result stays within the cap.
MaxLogLen == 13

TicksPerInch == 10 * 1000

None == <<>>

\* page_bbox_inches used for the sessions: (0, 0, 0.3, 0.4) inches.
PageBBox == <<0, 0, 3000, 4000>>

\* Points handed to moveto/lineto, in ticks.  (149, 0) is 0.0149 inch: not
\* a multiple of 0.001 inch, so rounding to 3 decimals changes it.
PointInputs == { <<0, 0>>, <<149, 0>>, <<3000, 0>>, <<3000, 4000>> }

(***************************************************************************)
(* Arithmetic helpers                                                      *)
(***************************************************************************)
RECURSIVE SqrtSearch(_, _, _)
SqrtSearch(n, lo, hi) ==
    IF lo >= hi THEN lo
    ELSE LET mid == (lo + hi + 1) \div 2
         IN  IF mid * mid <= n THEN SqrtSearch(n, mid, hi)
                               ELSE SqrtSearch(n, lo, mid - 1)

\* floor(sqrt(n)) for 0 <= n < 2^31
ISqrt(n) == SqrtSearch(n, 0, 46340)

\* Python round(): nearest integer to n/d, ties to even.
RoundHalfEven(n, d) ==
    LET q == n \div d
        r == n % d
    IN  IF 2 * r < d THEN q
        ELSE IF 2 * r > d THEN q + 1
        ELSE IF q % 2 = 0 THEN q ELSE q + 1

\* round(x, 3): x in ticks, result in ticks
Round3(x) == 10 * RoundHalfEven(x, 10)

Max(a, b) == IF a >= b THEN a ELSE b

Last(s) == s[Len(s)]

(***************************************************************************)
(* Strings are sequences of one-character strings.                         *)
(***************************************************************************)
LowerChars ==
    <<"a","b","c","d","e","f","g","h","i","j","k","l","m",
      "n","o","p","q","r","s","t","u","v","w","x","y","z">>

UpperChars ==
    <<"A","B","C","D","E","F","G","H","I","J","K","L","M",
      "N","O","P","Q","R","S","T","U","V","W","X","Y","Z">>

\* str.upper() on one character
UpperChar(c) ==
    IF \E i \in 1..26 : LowerChars[i] = c
    THEN UpperChars[CHOOSE i \in 1..26 : LowerChars[i] = c]
    ELSE c

\* str.lower() on one character
LowerChar(c) ==
    IF \E i \in 1..26 : UpperChars[i] = c
    THEN LowerChars[CHOOSE i \in 1..26 : UpperChars[i] = c]
    ELSE c

Upper(s) == [i \in 1..Len(s) |-> UpperChar(s[i])]

IsSpace(c) == c \in {" ", "\t", "\n"}

RECURSIVE LStrip(_)
LStrip(s) == IF s # <<>> /\ IsSpace(s[1]) THEN LStrip(Tail(s)) ELSE s

RECURSIVE RStrip(_)
RStrip(s) ==
    IF s # <<>> /\ IsSpace(s[Len(s)]) THEN RStrip(SubSeq(s, 1, Len(s) - 1)) ELSE s

\* str.strip()
Strip(s) == RStrip(LStrip(s))

(***************************************************************************)
(* DualPlotter: colour table                                               *)
(***************************************************************************)
BLACK == <<"B","L","A","C","K">>

RED == <<"R","E","D">>

ORANGE == <<"O","R","A","N","G","E">>

YELLOW == <<"Y","E","L","L","O","W">>

GREEN == <<"G","R","E","E","N">>

CYAN == <<"C","Y","A","N">>

BLUE == <<"B","L","U","E">>

PURPLE == <<"P","U","R","P","L","E">>

MAGENTA == <<"M","A","G","E","N","T","A">>

GREY == <<"G","R","E","Y">>

COLOR_TABLE ==
    (BLACK :> <<0, 0, 0>>) @@ (RED :> <<220, 20, 60>>) @@
    (ORANGE :> <<255, 165, 0>>) @@ (YELLOW :> <<255, 215, 0>>) @@
    (GREEN :> <<34, 139, 34>>) @@ (CYAN :> <<0, 180, 180>>) @@
    (BLUE :> <<30, 144, 255>>) @@ (PURPLE :> <<128, 0, 128>>) @@
    (MAGENTA :> <<255, 0, 255>>) @@ (GREY :> <<200, 200, 200>>)

\* A Python value handed over as a colour: its type, and the text str()
\* gives for it (for a string, the string itself).
PyStr(s) == [type |-> "str", str |-> s]

PyInt(digits) == [type |-> "int", str |-> digits]

\* Colour arguments handed to confirmColorChange.
ColorInputs ==
    { PyStr(RED), PyStr(<<" ","r","e","d">>), PyStr(<<"T","E","A","L">>),
      PyInt(<<"5">>) }

\* _rgb_for_name that looks the name up as it was given
rgb_for_name_AsGiven(color_like) ==
    IF color_like.type # "str"
    THEN COLOR_TABLE[BLACK]
    ELSE LET name == color_like.str
         IN  IF name \in DOMAIN COLOR_TABLE THEN COLOR_TABLE[name]
                                            ELSE COLOR_TABLE[BLACK]

rgb_for_name(color_like) ==
    IF color_like.type # "str"
    THEN COLOR_TABLE[BLACK]
    ELSE LET name == Upper(Strip(color_like.str))
         IN  IF name \in DOMAIN COLOR_TABLE THEN COLOR_TABLE[name]
                                            ELSE COLOR_TABLE[BLACK]

(***************************************************************************)
(* DualPlotter: options                                                    *)
(***************************************************************************)
OptionNames == <<"pen_pos_down", "pen_pos_up", "speed_pendown", "speed_penup", "accel">>

Options ==
    [pen_pos_down |-> 70, pen_pos_up |-> 20, speed_pendown |-> 25,
     speed_penup |-> 60, accel |-> 30]

\* Values a caller assigns to an option field.
OptionInputs == { 40, 55 }

snapshot_current_options(p) ==
    [pen_pos_down |-> p.options.pen_pos_down, pen_pos_up |-> p.options.pen_pos_up,
     speed_pendown |-> p.options.speed_pendown, speed_penup |-> p.options.speed_penup,
     accel |-> p.options.accel]

apply_options(p) ==
    [p EXCEPT !.dev_options = <<snapshot_current_options(p)>>]

(***************************************************************************)
(* DualPlotter: construction                                               *)
(***************************************************************************)
\* One entry of the command log, of the driver's call trace, or of the
\* replay script: kind, coordinates (moves), name (colour / prompt text),
\* opt (option field or comment tag).
Entry(kind, x, y, name, opt) ==
    [kind |-> kind, x |-> x, y |-> y, name |-> name, opt |-> opt]

DualPlotter(use_device, page_bbox_inches, dpi, line_px) ==
    LET base ==
          [use_device |-> use_device,
           dpi |-> dpi, line_px |-> line_px,
           pos |-> None,
           pen_distance_in |-> 0, drawn_length_in |-> 0,
           xmin |-> page_bbox_inches[1], ymin |-> page_bbox_inches[2],
           xmax |-> page_bbox_inches[3], ymax |-> page_bbox_inches[4],
           W |-> Max(1, RoundHalfEven(
                     Max(0, page_bbox_inches[3] - page_bbox_inches[1]) * dpi,
                     TicksPerInch)),
           H |-> Max(1, RoundHalfEven(
                     Max(0, page_bbox_inches[4] - page_bbox_inches[2]) * dpi,
                     TicksPerInch)),
           options |-> Options,
           stroke_color_name |-> BLACK,
           stroke_rgb |-> COLOR_TABLE[BLACK],
           \* device mode only
           driver |-> <<>>, dev_options |-> None,
           \* image mode only
           img |-> <<>>,
           called_interactive |-> FALSE,
           command_log |-> <<>>,
           options_snapshot |-> None]
    IN  IF use_device THEN apply_options(base) ELSE base

(***************************************************************************)
(* DualPlotter: helpers                                                    *)
(***************************************************************************)
to_px(p, x_in, y_in) ==
    << RoundHalfEven((x_in - p.xmin) * p.dpi, TicksPerInch),
       RoundHalfEven((p.ymax - y_in) * p.dpi, TicksPerInch) >>

\* math.hypot, to the tick
segment_len(a, b) ==
    ISqrt((b[1] - a[1]) * (b[1] - a[1]) + (b[2] - a[2]) * (b[2] - a[2]))

(***************************************************************************)
(* DualPlotter: public API, as functions of the plotter object             *)
(***************************************************************************)
\* moveto that forgets to count pen-up travel
moveto_NoTravel(p, x, y) ==
    LET q == [p EXCEPT !.pos = <<x, y>>]
    IN  IF p.use_device
        THEN [q EXCEPT !.driver = Append(@, Entry("moveto", x, y, <<>>, ""))]
        ELSE [q EXCEPT !.command_log = Append(@, Entry("moveto", x, y, <<>>, ""))]

\* moveto that, in image mode, draws the travel into the raster
moveto_InkTrail(p, x, y) ==
    LET q == [p EXCEPT
                !.pen_distance_in =
                    IF p.pos # None THEN @ + segment_len(p.pos, <<x, y>>) ELSE @,
                !.pos = <<x, y>>]
    IN  IF p.use_device
        THEN [q EXCEPT !.driver = Append(@, Entry("moveto", x, y, <<>>, ""))]
        ELSE [q EXCEPT !.command_log = Append(@, Entry("moveto", x, y, <<>>, "")),
                       !.img = IF p.pos # None
                               THEN Append(@, [p0 |-> to_px(p, p.pos[1], p.pos[2]),
                                               p1 |-> to_px(p, x, y),
                                               fill |-> p.stroke_rgb,
                                               width |-> p.line_px])
                               ELSE @]

moveto(p, x, y) ==
    LET q == [p EXCEPT
                !.pen_distance_in =
                    IF p.pos # None THEN @ + segment_len(p.pos, <<x, y>>) ELSE @,
                !.pos = <<x, y>>]
    IN  IF p.use_device
        THEN [q EXCEPT !.driver = Append(@, Entry("moveto", x, y, <<>>, ""))]
        ELSE [q EXCEPT !.command_log = Append(@, Entry("moveto", x, y, <<>>, ""))]

\* lineto that, on a session without a position, draws from the origin
lineto_FromOrigin(p, x, y) ==
    LET from == IF p.pos = None THEN <<0, 0>> ELSE p.pos
        seg_len == segment_len(from, <<x, y>>)
        q == [p EXCEPT !.pen_distance_in = @ + seg_len,
                       !.drawn_length_in = @ + seg_len]
        r == IF p.use_device
             THEN [q EXCEPT !.driver = Append(@, Entry("lineto", x, y, <<>>, ""))]
             ELSE [q EXCEPT
                     !.img = Append(@, [p0 |-> to_px(p, from[1], from[2]),
                                        p1 |-> to_px(p, x, y),
                                        fill |-> p.stroke_rgb,
                                        width |-> p.line_px]),
                     !.command_log = Append(@, Entry("lineto", x, y, <<>>, ""))]
    IN  [r EXCEPT !.pos = <<x, y>>]

\* lineto whose device branch returns the driver's result before the
\* position is stored
lineto_DeviceEarlyReturn(p, x, y) ==
    IF p.pos = None
    THEN LET q == [p EXCEPT !.pos = <<x, y>>]
         IN  IF p.use_device
             THEN [q EXCEPT !.driver = Append(@, Entry("lineto", x, y, <<>>, ""))]
             ELSE [q EXCEPT !.command_log = Append(@, Entry("lineto", x, y, <<>>, ""))]
    ELSE LET seg_len == segment_len(p.pos, <<x, y>>)
             q == [p EXCEPT !.pen_distance_in = @ + seg_len,
                            !.drawn_length_in = @ + seg_len]
         IN  IF p.use_device
             THEN [q EXCEPT !.driver = Append(@, Entry("lineto", x, y, <<>>, ""))]
             ELSE [q EXCEPT
                     !.img = Append(@, [p0 |-> to_px(p, p.pos[1], p.pos[2]),
                                        p1 |-> to_px(p, x, y),
                                        fill |-> p.stroke_rgb,
                                        width |-> p.line_px]),
                     !.command_log = Append(@, Entry("lineto", x, y, <<>>, "")),
                     !.pos = <<x, y>>]

\* lineto that always rasterizes in black
lineto_BlackInk(p, x, y) ==
    IF p.pos = None
    THEN LET q == [p EXCEPT !.pos = <<x, y>>]
         IN  IF p.use_device
             THEN [q EXCEPT !.driver = Append(@, Entry("lineto", x, y, <<>>, ""))]
             ELSE [q EXCEPT !.command_log = Append(@, Entry("lineto", x, y, <<>>, ""))]
    ELSE LET seg_len == segment_len(p.pos, <<x, y>>)
             q == [p EXCEPT !.pen_distance_in = @ + seg_len,
                            !.drawn_length_in = @ + seg_len]
             r == IF p.use_device
                  THEN [q EXCEPT !.driver = Append(@, Entry("lineto", x, y, <<>>, ""))]
                  ELSE [q EXCEPT
                          !.img = Append(@, [p0 |-> to_px(p, p.pos[1], p.pos[2]),
                                             p1 |-> to_px(p, x, y),
                                             fill |-> COLOR_TABLE[BLACK],
                                             width |-> p.line_px]),
                          !.command_log = Append(@, Entry("lineto", x, y, <<>>, ""))]
         IN  [r EXCEPT !.pos = <<x, y>>]

\* lineto that counts the segment as drawn but not as travelled
lineto_DrawnOnly(p, x, y) ==
    IF p.pos = None
    THEN LET q == [p EXCEPT !.pos = <<x, y>>]
         IN  IF p.use_device
             THEN [q EXCEPT !.driver = Append(@, Entry("lineto", x, y, <<>>, ""))]
             ELSE [q EXCEPT !.command_log = Append(@, Entry("lineto", x, y, <<>>, ""))]
    ELSE LET seg_len == segment_len(p.pos, <<x, y>>)
             q == [p EXCEPT !.drawn_length_in = @ + seg_len]
             r == IF p.use_device
                  THEN [q EXCEPT !.driver = Append(@, Entry("lineto", x, y, <<>>, ""))]
                  ELSE [q EXCEPT
                          !.img = Append(@, [p0 |-> to_px(p, p.pos[1], p.pos[2]),
                                             p1 |-> to_px(p, x, y),
                                             fill |-> p.stroke_rgb,
                                             width |-> p.line_px]),
                          !.command_log = Append(@, Entry("lineto", x, y, <<>>, ""))]
         IN  [r EXCEPT !.pos = <<x, y>>]

lineto(p, x, y) ==
    IF p.pos = None
    THEN LET q == [p EXCEPT !.pos = <<x, y>>]
         IN  IF p.use_device
             THEN [q EXCEPT !.driver = Append(@, Entry("lineto", x, y, <<>>, ""))]
             ELSE [q EXCEPT !.command_log = Append(@, Entry("lineto", x, y, <<>>, ""))]
    ELSE LET seg_len == segment_len(p.pos, <<x, y>>)
             q == [p EXCEPT !.pen_distance_in = @ + seg_len,
                            !.drawn_length_in = @ + seg_len]
             r == IF p.use_device
                  THEN [q EXCEPT !.driver = Append(@, Entry("lineto", x, y, <<>>, ""))]
                  ELSE [q EXCEPT
                          !.img = Append(@, [p0 |-> to_px(p, p.pos[1], p.pos[2]),
                                             p1 |-> to_px(p, x, y),
                                             fill |-> p.stroke_rgb,
                                             width |-> p.line_px]),
                          !.command_log = Append(@, Entry("lineto", x, y, <<>>, ""))]
         IN  [r EXCEPT !.pos = <<x, y>>]

\* confirmColorChange that parks the pen after the colour event
confirmColorChange_ParkAfter(p, new_color, interrupted) ==
    LET display_name == new_color.str
    IN  IF p.use_device
        THEN moveto([p EXCEPT !.driver =
                        Append(@, Entry("input", 0, 0, display_name,
                                        IF interrupted THEN "KeyboardInterrupt" ELSE ""))],
                    0, 0)
        ELSE moveto([p EXCEPT !.stroke_color_name = display_name,
                              !.stroke_rgb = rgb_for_name(PyStr(display_name)),
                              !.command_log =
                                  Append(@, Entry("color", 0, 0, display_name, ""))],
                    0, 0)

\* interrupted: the operator answered the prompt with KeyboardInterrupt
\* (device mode only; the exception is caught and the call returns).
confirmColorChange(p, new_color, interrupted) ==
    LET q == moveto(p, 0, 0)
        display_name == new_color.str
    IN  IF p.use_device
        THEN [q EXCEPT !.driver =
                 Append(@, Entry("input", 0, 0, display_name,
                                 IF interrupted THEN "KeyboardInterrupt" ELSE ""))]
        ELSE [q EXCEPT !.stroke_color_name = display_name,
                       !.stroke_rgb = rgb_for_name(PyStr(display_name)),
                       !.command_log = Append(@, Entry("color", 0, 0, display_name, ""))]

\* confirmColorChange that lets the KeyboardInterrupt of the prompt escape
confirmColorChange_raises_Propagates(p, interrupted) ==
    IF p.use_device /\ interrupted THEN <<"KeyboardInterrupt">> ELSE None

\* The exception confirmColorChange lets escape to its caller: the
\* KeyboardInterrupt raised at the prompt is caught, the call returns.
confirmColorChange_raises(p, interrupted) ==
    None

\* outlinePage that marks each corner before travelling to it
outlinePage_DotBeforeMove(p, do_dots) ==
    LET dot(q, x, y) == IF do_dots THEN lineto(q, x, y) ELSE q
        p1 == moveto(dot(p, p.xmin, p.ymin), p.xmin, p.ymin)
        p2 == moveto(dot(p1, p.xmin, p.ymax), p.xmin, p.ymax)
        p3 == moveto(dot(p2, p.xmax, p.ymax), p.xmax, p.ymax)
        p4 == moveto(dot(p3, p.xmax, p.ymin), p.xmax, p.ymin)
    IN  moveto(p4, p.xmin, p.ymin)

outlinePage(p, do_dots) ==
    LET dot(q, x, y) == IF do_dots THEN lineto(q, x, y) ELSE q
        p1 == dot(moveto(p, p.xmin, p.ymin), p.xmin, p.ymin)
        p2 == dot(moveto(p1, p.xmin, p.ymax), p.xmin, p.ymax)
        p3 == dot(moveto(p2, p.xmax, p.ymax), p.xmax, p.ymax)
        p4 == dot(moveto(p3, p.xmax, p.ymin), p.xmax, p.ymin)
    IN  moveto(p4, p.xmin, p.ymin)

interactive(p) ==
    IF p.use_device
    THEN apply_options([p EXCEPT !.driver = Append(@, Entry("interactive", 0, 0, <<>>, ""))])
    ELSE [p EXCEPT !.called_interactive = TRUE]

\* driver_result: what the driver's own connect() answers (device mode).
connect_result(p, driver_result) ==
    IF p.use_device THEN driver_result ELSE TRUE

\* connect that takes a fresh options snapshot every time
connect_Resnapshot(p) ==
    IF p.use_device
    THEN [p EXCEPT !.driver = Append(@, Entry("connect", 0, 0, <<>>, ""))]
    ELSE [p EXCEPT !.options_snapshot = <<snapshot_current_options(p)>>]

connect(p) ==
    IF p.use_device
    THEN [p EXCEPT !.driver = Append(@, Entry("connect", 0, 0, <<>>, ""))]
    ELSE IF p.options_snapshot = None
         THEN [p EXCEPT !.options_snapshot = <<snapshot_current_options(p)>>]
         ELSE p

(***************************************************************************)
(* Replay script writer                                                    *)
(***************************************************************************)
\* color_name.replace("'", "\\'")
RECURSIVE EscapeQuotes(_)
EscapeQuotes(s) ==
    IF s = <<>> THEN <<>>
    ELSE IF Head(s) = "'" THEN <<"\\", "'">> \o EscapeQuotes(Tail(s))
    ELSE <<Head(s)>> \o EscapeQuotes(Tail(s))

\* The statements emitted for the entries cmds of the command log.
RECURSIVE ReplayBody(_)
ReplayBody(cmds) ==
    IF cmds = <<>> THEN <<>>
    ELSE LET c == Head(cmds)
             stmts ==
               IF c.kind = "moveto"
               THEN << Entry("moveto", Round3(c.x), Round3(c.y), <<>>, "") >>
               ELSE IF c.kind = "lineto"
               THEN << Entry("lineto", Round3(c.x), Round3(c.y), <<>>, "") >>
               ELSE IF c.kind = "color"
               THEN << Entry("comment", 0, 0, <<>>, "Color change requested"),
                       Entry("moveto", 0, 0, <<>>, ""),
                       Entry("input", 0, 0, EscapeQuotes(c.name), "") >>
               ELSE << Entry("comment", 0, 0, <<>>, "Unrecognized event skipped") >>
         IN  stmts \o ReplayBody(Tail(cmds))

\* _write_replay_script that always takes the current option values
write_replay_script_self_Current(p) ==
    [p EXCEPT !.options_snapshot = <<snapshot_current_options(p)>>]

\* The plotter after _write_replay_script (the options snapshot may be set).
write_replay_script_self(p) ==
    IF p.options_snapshot = None
    THEN [p EXCEPT !.options_snapshot = <<snapshot_current_options(p)>>]
    ELSE p

\* _write_replay_script that stops after the placeholder when nothing was logged
write_replay_script_StopsAtPlaceholder(p) ==
    LET opts == write_replay_script_self(p).options_snapshot[1]
        header ==
          << Entry("interactive", 0, 0, <<>>, ""),
             Entry("option", opts.pen_pos_down, 0, <<>>, "pen_pos_down"),
             Entry("option", opts.pen_pos_up, 0, <<>>, "pen_pos_up"),
             Entry("option", opts.speed_pendown, 0, <<>>, "speed_pendown"),
             Entry("option", opts.speed_penup, 0, <<>>, "speed_penup"),
             Entry("option", opts.accel, 0, <<>>, "accel"),
             Entry("connect", 0, 0, <<>>, "") >>
        body ==
          IF p.command_log = <<>>
          THEN << Entry("comment", 0, 0, <<>>, "No movements were recorded") >>
          ELSE LET cmds == p.command_log
               IN  << Entry("comment", 0, 0, <<>>, "Replay recorded moves") >> \o
                   (IF cmds[1].kind = "lineto"
                    THEN << Entry("moveto", Round3(cmds[1].x), Round3(cmds[1].y),
                                  <<>>, "inserted to ensure valid start") >>
                         \o ReplayBody(Tail(cmds))
                    ELSE ReplayBody(cmds))
    IN  IF p.command_log = <<>>
        THEN header \o body
        ELSE header \o body \o << Entry("disconnect", 0, 0, <<>>, "") >>

\* The text written to _py_out_path, statement by statement.
write_replay_script(p) ==
    LET opts == write_replay_script_self(p).options_snapshot[1]
        header ==
          << Entry("interactive", 0, 0, <<>>, ""),
             Entry("option", opts.pen_pos_down, 0, <<>>, "pen_pos_down"),
             Entry("option", opts.pen_pos_up, 0, <<>>, "pen_pos_up"),
             Entry("option", opts.speed_pendown, 0, <<>>, "speed_pendown"),
             Entry("option", opts.speed_penup, 0, <<>>, "speed_penup"),
             Entry("option", opts.accel, 0, <<>>, "accel"),
             Entry("connect", 0, 0, <<>>, "") >>
        body ==
          IF p.command_log = <<>>
          THEN << Entry("comment", 0, 0, <<>>, "No movements were recorded") >>
          ELSE LET cmds == p.command_log
               IN  << Entry("comment", 0, 0, <<>>, "Replay recorded moves") >> \o
                   (IF cmds[1].kind = "lineto"
                    THEN << Entry("moveto", Round3(cmds[1].x), Round3(cmds[1].y),
                                  <<>>, "inserted to ensure valid start") >>
                         \o ReplayBody(Tail(cmds))
                    ELSE ReplayBody(cmds))
    IN  header \o body \o << Entry("disconnect", 0, 0, <<>>, "") >>

\* Image.transpose(FLIP_TOP_BOTTOM) of the drawn segments
flip_top_bottom(p) ==
    [i \in 1..Len(p.img) |->
        [p.img[i] EXCEPT !.p0 = <<@[1], p.H - 1 - @[2]>>,
                         !.p1 = <<@[1], p.H - 1 - @[2]>>]]

\* disconnect that empties the command log once the script is written
disconnect_ClearsLog(p) ==
    IF p.use_device
    THEN [p EXCEPT !.driver = Append(@, Entry("disconnect", 0, 0, <<>>, ""))]
    ELSE [write_replay_script_self(p) EXCEPT !.command_log = <<>>]

disconnect(p) ==
    IF p.use_device
    THEN [p EXCEPT !.driver = Append(@, Entry("disconnect", 0, 0, <<>>, ""))]
    ELSE write_replay_script_self(p)

(***************************************************************************)
(* Text layout engine (dual_text_lib.py).  Heights are in 1/100 inch,      *)
(* em fractions and glyph coordinates in 1/100, font_scale in percent;     *)
(* widths, advances and coordinates are then in ticks.                     *)
(***************************************************************************)
MaxTextLen == 5

\* Characters of the input texts
\* An upper-case letter of the font, a character the font lacks, a blank
TextChars == {"I", "~", " "}

HeightInputs == {20, 50}

LetterSpacingInputs == {12}

\* word_spacing_em: None or 0.35
WordSpacingInputs == {None, <<35>>}

MaxWidthInputs == {6000, 7200}

FontScaleInputs == {100, 150}

TextOrigin == <<1000, 2000>>

\* Glyphs of the stroke font that the input texts can reach
FONT ==
    ("h" :> [w |-> 100, strokes |-> << << <<0, 0>>, <<0, 100>> >>,
                                       << <<0, 50>>, <<100, 50>> >>,
                                       << <<100, 100>>, <<100, 0>> >> >>]) @@
    ("i" :> [w |-> 100, strokes |-> << << <<0, 0>>, <<100, 0>> >>,
                                       << <<100, 100>>, <<0, 100>> >>,
                                       << <<50, 100>>, <<50, 0>> >> >>]) @@
    ("o" :> [w |-> 60, strokes |-> << << <<0, 0>>, <<80, 0>>, <<100, 20>>,
                                         <<100, 100>>, <<0, 100>>, <<0, 0>> >> >>]) @@
    ("?" :> [w |-> 100, strokes |-> << << <<0, 0>>, <<80, 0>>, <<100, 20>>,
                                          <<50, 50>>, <<50, 80>> >>,
                                       << <<50, 100>>, <<51, 100>> >> >>]) @@
    (" " :> [w |-> 35, strokes |-> << >>])

GLYPH_WIDTH_EM == 60

\* str.split(): the maximal runs of non-whitespace characters
RECURSIVE SplitFrom(_, _, _)
SplitFrom(text, acc, cur) ==
    IF text = <<>> THEN (IF cur = <<>> THEN acc ELSE Append(acc, cur))
    ELSE IF IsSpace(Head(text))
         THEN SplitFrom(Tail(text), IF cur = <<>> THEN acc ELSE Append(acc, cur), <<>>)
         ELSE SplitFrom(Tail(text), acc, Append(cur, Head(text)))

Split(text) == SplitFrom(text, <<>>, <<>>)

\* " ".join(ws)
RECURSIVE Join(_)
Join(ws) ==
    IF ws = <<>> THEN <<>>
    ELSE IF Len(ws) = 1 THEN ws[1]
    ELSE ws[1] \o <<" ">> \o Join(Tail(ws))

RECURSIVE draw_points(_, _, _, _, _, _)
draw_points(ad, pts, ox, oy, sx, sy) ==
    IF pts = <<>> THEN ad
    ELSE draw_points(lineto(ad, ox + (pts[1][1] * sx) \div 100,
                                oy + (pts[1][2] * sy) \div 100),
                     Tail(pts), ox, oy, sx, sy)

\* draw_polyline that never lifts the pen
draw_polyline_AllLineto(ad, poly, ox, oy, sx, sy) ==
    IF poly = <<>> THEN ad
    ELSE draw_points(ad, poly, ox, oy, sx, sy)

draw_polyline(ad, poly, ox, oy, sx, sy) ==
    IF poly = <<>> THEN ad
    ELSE draw_points(moveto(ad, ox + (poly[1][1] * sx) \div 100,
                                oy + (poly[1][2] * sy) \div 100),
                     Tail(poly), ox, oy, sx, sy)

RECURSIVE draw_strokes(_, _, _, _, _, _)
draw_strokes(ad, strokes, ox, oy, sx, sy) ==
    IF strokes = <<>> THEN ad
    ELSE draw_strokes(draw_polyline(ad, Head(strokes), ox, oy, sx, sy),
                      Tail(strokes), ox, oy, sx, sy)

\* draw_glyph scaled by the glyph's own advance width
draw_glyph_OwnWidth(ad, ch, x, y, height_in, tracking_in) ==
    LET g == IF ch \in DOMAIN FONT THEN FONT[ch] ELSE FONT["?"]
        sx == g.w * height_in
        sy == 100 * height_in
    IN  [ad |-> draw_strokes(ad, g.strokes, x, y, sx, sy),
         advance |-> sx + tracking_in]

\* Returns the plotter after the strokes and the advance.
draw_glyph(ad, ch, x, y, height_in, tracking_in) ==
    LET g == IF ch \in DOMAIN FONT THEN FONT[ch] ELSE FONT["?"]
        width_em == GLYPH_WIDTH_EM
        sx == width_em * height_in
        sy == 100 * height_in
    IN  [ad |-> draw_strokes(ad, g.strokes, x, y, sx, sy),
         advance |-> sx + tracking_in]

glyph_advance_inches(height_in, letter_spacing_em) ==
    (GLYPH_WIDTH_EM + letter_spacing_em) * height_in

space_advance_inches(height_in, letter_spacing_em, word_spacing_em) ==
    IF word_spacing_em # None
    THEN word_spacing_em[1] * height_in
    ELSE glyph_advance_inches(height_in, letter_spacing_em)

measure_word_width_inches(word, height_in, letter_spacing_em) ==
    IF word = <<>> THEN 0
    ELSE Len(word) * glyph_advance_inches(height_in, letter_spacing_em)

\* The scaled height draw_text_line draws with
draw_text_line_h(height_in, font_scale) == (height_in * font_scale) \div 100

\* One iteration of the loop of draw_text_line, for the character ch with
\* the cursor at cursor_x: the plotter and the cursor after it.
draw_text_line_char(ad, ch, cursor_x, baseline_y_in, h, letter_spacing_em, word_spacing_em) ==
    LET glyph_key == LowerChar(ch)
    IN  IF glyph_key = " " /\ word_spacing_em # None
        THEN [ad |-> ad, cursor_x |-> cursor_x + word_spacing_em[1] * h]
        ELSE LET tracking == letter_spacing_em * h
                 g == draw_glyph(ad, glyph_key, cursor_x, baseline_y_in, h, tracking)
             IN  [ad |-> g.ad, cursor_x |-> cursor_x + g.advance]

\* The locals of one draw_wrapped_text call.
wrapped_text_call(text, origin, height_in, max_width_in, letter_spacing_em, word_spacing_em, line_spacing_in, font_scale) ==
    [phase |-> "called",
     text |-> text, origin_x_in |-> origin[1], baseline_y_in |-> origin[2],
     height_in |-> height_in, max_width_in |-> max_width_in,
     letter_spacing_em |-> letter_spacing_em, word_spacing_em |-> word_spacing_em,
     line_spacing_in |-> line_spacing_in, font_scale |-> font_scale,
     words |-> <<>>, wi |-> 1, lines |-> <<>>,
     current_words |-> <<>>, current_width |-> 0,
     y |-> 0, li |-> 1, ci |-> 1, cursor_x |-> 0, result |-> None]

\* Entry of draw_wrapped_text up to the wrapping loop: default line
\* spacing, split, early return on no words.
wrap_begin(l) ==
    LET words == Split(l.text)
        l1 == [l EXCEPT !.line_spacing_in =
                            IF @ = None THEN <<150 * l.height_in>> ELSE @,
                        !.words = words]
    IN  IF words = <<>> THEN [l1 EXCEPT !.phase = "returned"]
                        ELSE [l1 EXCEPT !.phase = "wrap"]

\* wrap_word that forgets the space when testing the budget
wrap_word_NoSpace(l) ==
    LET w == l.words[l.wi]
        w_width == measure_word_width_inches(w, l.height_in, l.letter_spacing_em)
        add_space == Len(l.current_words) > 0
        extra_space_width ==
            IF add_space
            THEN space_advance_inches(l.height_in, l.letter_spacing_em, l.word_spacing_em)
            ELSE 0
    IN  IF l.current_words # <<>> /\
           10 * (l.current_width + w_width) > l.max_width_in * 6
        THEN [l EXCEPT !.lines = Append(@, Join(l.current_words)),
                       !.current_words = <<w>>,
                       !.current_width = w_width,
                       !.wi = @ + 1]
        ELSE [l EXCEPT !.current_words = Append(@, w),
                       !.current_width = @ + extra_space_width + w_width,
                       !.wi = @ + 1]

\* wrap_word that measures with the scaled height
wrap_word_Scaled(l) ==
    LET h == draw_text_line_h(l.height_in, l.font_scale)
        w == l.words[l.wi]
        w_width == measure_word_width_inches(w, h, l.letter_spacing_em)
        add_space == Len(l.current_words) > 0
        extra_space_width ==
            IF add_space
            THEN space_advance_inches(h, l.letter_spacing_em, l.word_spacing_em)
            ELSE 0
    IN  IF l.current_words # <<>> /\
           10 * (l.current_width + extra_space_width + w_width) > l.max_width_in * 6
        THEN [l EXCEPT !.lines = Append(@, Join(l.current_words)),
                       !.current_words = <<w>>,
                       !.current_width = w_width,
                       !.wi = @ + 1]
        ELSE [l EXCEPT !.current_words = Append(@, w),
                       !.current_width = @ + extra_space_width + w_width,
                       !.wi = @ + 1]

\* wrap_word that closes the line when the word fills the budget exactly
wrap_word_ClosesOnEqual(l) ==
    LET w == l.words[l.wi]
        w_width == measure_word_width_inches(w, l.height_in, l.letter_spacing_em)
        add_space == Len(l.current_words) > 0
        extra_space_width ==
            IF add_space
            THEN space_advance_inches(l.height_in, l.letter_spacing_em, l.word_spacing_em)
            ELSE 0
    IN  IF l.current_words # <<>> /\
           10 * (l.current_width + extra_space_width + w_width) >= l.max_width_in * 6
        THEN [l EXCEPT !.lines = Append(@, Join(l.current_words)),
                       !.current_words = <<w>>,
                       !.current_width = w_width,
                       !.wi = @ + 1]
        ELSE [l EXCEPT !.current_words = Append(@, w),
                       !.current_width = @ + extra_space_width + w_width,
                       !.wi = @ + 1]

\* One iteration of the wrapping loop, for the word words[wi].
wrap_word(l) ==
    LET w == l.words[l.wi]
        w_width == measure_word_width_inches(w, l.height_in, l.letter_spacing_em)
        add_space == Len(l.current_words) > 0
        extra_space_width ==
            IF add_space
            THEN space_advance_inches(l.height_in, l.letter_spacing_em, l.word_spacing_em)
            ELSE 0
    IN  IF l.current_words # <<>> /\
           10 * (l.current_width + extra_space_width + w_width) > l.max_width_in * 6
        THEN [l EXCEPT !.lines = Append(@, Join(l.current_words)),
                       !.current_words = <<w>>,
                       !.current_width = w_width,
                       !.wi = @ + 1]
        ELSE [l EXCEPT !.current_words = Append(@, w),
                       !.current_width = @ + extra_space_width + w_width,
                       !.wi = @ + 1]

\* wrap_end that leaves the line being built out of the result
wrap_end_NoFlush(l) ==
    [l EXCEPT !.y = l.baseline_y_in,
              !.li = 1,
              !.ci = 1,
              !.cursor_x = l.origin_x_in,
              !.phase = "draw"]

\* After the loop: close the last line, set up the drawing loop and enter
\* draw_text_line for the first line.
wrap_end(l) ==
    [l EXCEPT !.lines = IF l.current_words # <<>> THEN Append(@, Join(l.current_words))
                                                  ELSE @,
              !.y = l.baseline_y_in,
              !.li = 1,
              !.ci = 1,
              !.cursor_x = l.origin_x_in,
              !.phase = "draw"]

\* The wrapping loop run to its end
RECURSIVE wrap_all(_)
wrap_all(l) ==
    IF l.wi > Len(l.words) THEN wrap_end(l) ELSE wrap_all(wrap_word(l))

\* The lines a call of draw_wrapped_text computes
wrapped_lines(l) ==
    LET b == wrap_begin(l)
    IN  IF b.phase = "returned" THEN <<>> ELSE wrap_all(b).lines

\* draw_text_line on plotter ad, at the character lines[li][ci]
draw_char(l, ad) ==
    draw_text_line_char(ad, l.lines[l.li][l.ci], l.cursor_x, l.y,
                        draw_text_line_h(l.height_in, l.font_scale),
                        l.letter_spacing_em, l.word_spacing_em)

draw_char_next(l, cursor_x) ==
    [l EXCEPT !.cursor_x = cursor_x, !.ci = @ + 1]

\* draw_text_line returns: next baseline, next line
draw_line_next(l) ==
    [l EXCEPT !.y = @ + (l.line_spacing_in[1] * l.font_scale) \div 100,
              !.li = @ + 1,
              !.ci = 1,
              !.cursor_x = l.origin_x_in]

wrap_return(l) ==
    [l EXCEPT !.phase = "returned", !.result = <<Len(l.lines)>>]

\* All strings over TextChars of length at most n
RECURSIVE Texts(_)
Texts(n) ==
    IF n = 0 THEN { <<>> }
    ELSE LET shorter == Texts(n - 1)
         IN  shorter \cup { Append(t, c) : t \in shorter, c \in TextChars }

(***************************************************************************)
(* _RotatingPlotter (dual_text_lib.py): a proxy that rotates moveto and    *)
(* lineto about a pivot.  Angles are whole multiples of 90 degrees, for    *)
(* which cosine and sine are taken as the integers -1, 0, 1.               *)
(***************************************************************************)
AngleInputs == {90, 180, 360, 0 - 90}

PivotInputs == {<<1000, 2000>>}

\* math.cos(math.radians(deg)), deg in 0..359 a multiple of 90
cos_deg(deg) == CASE deg = 0 -> 1 [] deg = 90 -> 0 [] deg = 180 -> 0 - 1 [] deg = 270 -> 0

\* math.sin(math.radians(deg)), deg in 0..359 a multiple of 90
sin_deg(deg) == CASE deg = 0 -> 0 [] deg = 90 -> 1 [] deg = 180 -> 0 [] deg = 270 -> 0 - 1

RotatingPlotter(angle_deg, pivot_x, pivot_y) ==
    [angle_deg |-> angle_deg, cx |-> pivot_x, cy |-> pivot_y,
     cos |-> cos_deg(angle_deg % 360), sin |-> sin_deg(angle_deg % 360)]

\* _apply that turns the other way
rot_apply_Clockwise(r, x, y) ==
    LET dx == x - r.cx
        dy == y - r.cy
    IN  << r.cos * dx + r.sin * dy + r.cx, r.cos * dy - r.sin * dx + r.cy >>

rot_apply(r, x, y) ==
    LET dx == x - r.cx
        dy == y - r.cy
    IN  << r.cos * dx - r.sin * dy + r.cx, r.sin * dx + r.cos * dy + r.cy >>

\* ad is the wrapped plotter (self._ad)
rot_moveto(r, ad, x, y) ==
    LET XY == rot_apply(r, x, y) IN moveto(ad, XY[1], XY[2])

rot_lineto(r, ad, x, y) ==
    LET XY == rot_apply(r, x, y) IN lineto(ad, XY[1], XY[2])

(***************************************************************************)
(* Initial state                                                           *)
(***************************************************************************)
NoLayout == [wrapped_text_call(<<>>, <<0, 0>>, 0, 0, 0, None, None, 100) EXCEPT !.phase = "idle"]

Init ==
    /\ dev = DualPlotter(TRUE, PageBBox, 100, 1)
    /\ sim = DualPlotter(FALSE, PageBBox, 100, 1)
    /\ files = [png |-> None, py |-> None]
    /\ ret = [dev |-> None, sim |-> None, raised |-> None]
    /\ rot = None
    /\ layout = NoLayout
    /\ calls = <<>>

\* History entry for one call: its name, its arguments, and the option
\* values the caller's options structure held when it was issued.
Call(op, x, y, name, flag, opt) ==
    [op |-> op, x |-> x, y |-> y, name |-> name, flag |-> flag, opt |-> opt,
     options |-> sim.options]

(***************************************************************************)
(* Actions: one per public call, issued to both plotters                   *)
(***************************************************************************)
Moveto(x, y) ==
    /\ dev' = moveto(dev, x, y)
    /\ sim' = moveto(sim, x, y)
    /\ calls' = Append(calls, Call("moveto", x, y, <<>>, FALSE, ""))
    /\ UNCHANGED <<files, ret, layout, rot>>

Lineto(x, y) ==
    /\ dev' = lineto(dev, x, y)
    /\ sim' = lineto(sim, x, y)
    /\ calls' = Append(calls, Call("lineto", x, y, <<>>, FALSE, ""))
    /\ UNCHANGED <<files, ret, layout, rot>>

\* The history keeps the argument as its text (name) and its type (opt).
ConfirmColorChange(new_color, interrupted) ==
    /\ dev' = confirmColorChange(dev, new_color, interrupted)
    /\ sim' = confirmColorChange(sim, new_color, interrupted)
    /\ ret' = [ret EXCEPT !.raised = confirmColorChange_raises(dev, interrupted)]
    /\ calls' = Append(calls, Call("confirmColorChange", 0, 0, new_color.str,
                                   interrupted, new_color.type))
    /\ UNCHANGED <<files, layout, rot>>

OutlinePage(do_dots) ==
    /\ dev' = outlinePage(dev, do_dots)
    /\ sim' = outlinePage(sim, do_dots)
    /\ calls' = Append(calls, Call("outlinePage", 0, 0, <<>>, do_dots, ""))
    /\ UNCHANGED <<files, ret, layout, rot>>

Interactive ==
    /\ dev' = interactive(dev)
    /\ sim' = interactive(sim)
    /\ calls' = Append(calls, Call("interactive", 0, 0, <<>>, FALSE, ""))
    /\ UNCHANGED <<files, ret, layout, rot>>

Connect(driver_result) ==
    /\ dev' = connect(dev)
    /\ sim' = connect(sim)
    /\ ret' = [ret EXCEPT !.dev = <<connect_result(dev, driver_result)>>,
                          !.sim = <<connect_result(sim, driver_result)>>]
    /\ calls' = Append(calls, Call("connect", 0, 0, <<>>, driver_result, ""))
    /\ UNCHANGED <<files, layout, rot>>

Disconnect ==
    /\ dev' = disconnect(dev)
    /\ sim' = disconnect(sim)
    /\ files' = [png |-> <<flip_top_bottom(sim)>>, py |-> <<write_replay_script(sim)>>]
    /\ calls' = Append(calls, Call("disconnect", 0, 0, <<>>, FALSE, ""))
    /\ UNCHANGED <<ret, layout, rot>>

\* The caller assigns ad.options.<field> = value on both plotters.
SetOption(field, value) ==
    /\ dev' = [dev EXCEPT !.options[field] = value]
    /\ sim' = [sim EXCEPT !.options[field] = value]
    /\ calls' = Append(calls, Call("options", value, 0, <<>>, FALSE, field))
    /\ UNCHANGED <<files, ret, layout, rot>>

(***************************************************************************)
(* Specification of a drawing session: moves, lines, colour changes,       *)
(* page outlines, and the close of the session.                            *)
(***************************************************************************)
\* The session is cut after MaxCalls calls; an exception that escapes a
\* call ends the caller's script.
MoreCalls == Len(calls) < MaxCalls /\ ret.raised = None

Next ==
    \/ \E pt \in PointInputs : MoreCalls /\ Moveto(pt[1], pt[2])
    \/ \E pt \in PointInputs : MoreCalls /\ Lineto(pt[1], pt[2])
    \/ \E name \in ColorInputs, interrupted \in BOOLEAN :
           MoreCalls /\ ConfirmColorChange(name, interrupted)
    \/ \E do_dots \in BOOLEAN :
           /\ MoreCalls
           /\ Len(sim.command_log) + 9 <= MaxLogLen
           /\ OutlinePage(do_dots)
    \/ MoreCalls /\ Disconnect

Spec == Init /\ [][Next]_vars

(***************************************************************************)
(* Specification of a whole session: every public call of the plotter, in  *)
(* any order.                                                              *)
(***************************************************************************)
NextSession ==
    \/ MoreCalls /\ Interactive
    \/ \E ok \in BOOLEAN : MoreCalls /\ Connect(ok)
    \/ \E pt \in PointInputs : MoreCalls /\ Moveto(pt[1], pt[2])
    \/ \E pt \in PointInputs : MoreCalls /\ Lineto(pt[1], pt[2])
    \/ \E name \in ColorInputs, interrupted \in BOOLEAN :
           MoreCalls /\ ConfirmColorChange(name, interrupted)
    \/ \E do_dots \in BOOLEAN :
           /\ MoreCalls
           /\ Len(sim.command_log) + 9 <= MaxLogLen
           /\ OutlinePage(do_dots)
    \/ MoreCalls /\ Disconnect

SpecSession == Init /\ [][NextSession]_vars

(***************************************************************************)
(* Specification of a session driven through the rotation proxy: moveto    *)
(* and lineto are the proxy's own methods; every other member is looked up *)
(* by __getattr__ on the wrapped plotter, so the call is the wrapped       *)
(* plotter's own.                                                          *)
(***************************************************************************)
MaxRotCalls == 3

InitRot ==
    /\ dev = DualPlotter(TRUE, PageBBox, 100, 1)
    /\ sim = DualPlotter(FALSE, PageBBox, 100, 1)
    /\ files = [png |-> None, py |-> None]
    /\ ret = [dev |-> None, sim |-> None, raised |-> None]
    /\ layout = NoLayout
    /\ calls = <<>>
    /\ \E angle_deg \in AngleInputs, pivot \in PivotInputs :
           rot = RotatingPlotter(angle_deg, pivot[1], pivot[2])

RotMoveto(x, y) ==
    /\ dev' = rot_moveto(rot, dev, x, y)
    /\ sim' = rot_moveto(rot, sim, x, y)
    /\ calls' = Append(calls, Call("moveto", x, y, <<>>, FALSE, ""))
    /\ UNCHANGED <<files, ret, layout, rot>>

RotLineto(x, y) ==
    /\ dev' = rot_lineto(rot, dev, x, y)
    /\ sim' = rot_lineto(rot, sim, x, y)
    /\ calls' = Append(calls, Call("lineto", x, y, <<>>, FALSE, ""))
    /\ UNCHANGED <<files, ret, layout, rot>>

\* The session is cut after MaxRotCalls calls.
MoreRotCalls == Len(calls) < MaxRotCalls

NextRot ==
    \/ \E pt \in PointInputs : MoreRotCalls /\ RotMoveto(pt[1], pt[2])
    \/ \E pt \in PointInputs : MoreRotCalls /\ RotLineto(pt[1], pt[2])
    \/ MoreRotCalls /\ ConfirmColorChange(PyStr(RED), FALSE)
    \/ \E do_dots \in BOOLEAN :
           /\ MoreRotCalls
           /\ Len(sim.command_log) + 9 <= MaxLogLen
           /\ OutlinePage(do_dots)
    \/ MoreRotCalls /\ SetOption("speed_pendown", 40)
    \/ MoreRotCalls /\ Connect(TRUE)
    \/ MoreRotCalls /\ Disconnect

SpecRot == InitRot /\ [][NextRot]_vars

(***************************************************************************)
(* Specification of the options life cycle: the caller changes options,    *)
(* connects, draws and disconnects in any order.                           *)
(***************************************************************************)
\* The session is cut after MaxOptCalls calls.
MoreOptCalls == Len(calls) < MaxOptCalls

NextOpts ==
    \/ \E i \in DOMAIN OptionNames, v \in OptionInputs :
           MoreOptCalls /\ SetOption(OptionNames[i], v)
    \/ MoreOptCalls /\ Interactive
    \/ \E ok \in BOOLEAN : MoreOptCalls /\ Connect(ok)
    \/ MoreOptCalls /\ Moveto(3000, 4000)
    \/ MoreOptCalls /\ Disconnect

SpecOpts == Init /\ [][NextOpts]_vars

(***************************************************************************)
(* Specification of one draw_wrapped_text call on both plotters, for every *)
(* input of the bounded sets.                                              *)
(***************************************************************************)
InitText ==
    /\ dev = DualPlotter(TRUE, PageBBox, 100, 1)
    /\ sim = DualPlotter(FALSE, PageBBox, 100, 1)
    /\ files = [png |-> None, py |-> None]
    /\ ret = [dev |-> None, sim |-> None, raised |-> None]
    /\ rot = None
    /\ calls = <<>>
    /\ \E text \in Texts(MaxTextLen), height_in \in HeightInputs,
          max_width_in \in MaxWidthInputs, letter_spacing_em \in LetterSpacingInputs,
          word_spacing_em \in WordSpacingInputs, font_scale \in FontScaleInputs :
          layout = wrapped_text_call(text, TextOrigin, height_in, max_width_in,
                                     letter_spacing_em, word_spacing_em, None, font_scale)

WrapBegin ==
    /\ layout.phase = "called"
    /\ layout' = wrap_begin(layout)
    /\ UNCHANGED <<dev, sim, files, ret, calls, rot>>

WrapWord ==
    /\ layout.phase = "wrap"
    /\ layout.wi <= Len(layout.words)
    /\ layout' = wrap_word(layout)
    /\ UNCHANGED <<dev, sim, files, ret, calls, rot>>

WrapEnd ==
    /\ layout.phase = "wrap"
    /\ layout.wi > Len(layout.words)
    /\ layout' = wrap_end(layout)
    /\ UNCHANGED <<dev, sim, files, ret, calls, rot>>

DrawChar ==
    /\ layout.phase = "draw"
    /\ layout.li <= Len(layout.lines)
    /\ layout.ci <= Len(layout.lines[layout.li])
    /\ dev' = draw_char(layout, dev).ad
    /\ sim' = draw_char(layout, sim).ad
    /\ layout' = draw_char_next(layout, draw_char(layout, sim).cursor_x)
    /\ UNCHANGED <<files, ret, calls, rot>>

DrawLineEnd ==
    /\ layout.phase = "draw"
    /\ layout.li <= Len(layout.lines)
    /\ layout.ci > Len(layout.lines[layout.li])
    /\ layout' = draw_line_next(layout)
    /\ UNCHANGED <<dev, sim, files, ret, calls, rot>>

WrapReturn ==
    /\ layout.phase = "draw"
    /\ layout.li > Len(layout.lines)
    /\ layout' = wrap_return(layout)
    /\ UNCHANGED <<dev, sim, files, ret, calls, rot>>

NextText == WrapBegin \/ WrapWord \/ WrapEnd \/ DrawChar \/ DrawLineEnd \/ WrapReturn

SpecText == InitText /\ [][NextText]_vars

(***************************************************************************)
(* Observations used by the properties                                     *)
(***************************************************************************)
IsMove(e) == e.kind \in {"moveto", "lineto"}

\* The moveto/lineto entries of a command log or of a driver trace
Moves(s) == SelectSeq(s, IsMove)

IsMoveOrPrompt(e) == e.kind \in {"moveto", "lineto", "input"}

\* The moves and operator prompts of a driver trace or of a replay script
MovesAndPrompts(s) == SelectSeq(s, IsMoveOrPrompt)

\* Sum of the distances between consecutive positions of m
RECURSIVE PathLength(_)
PathLength(m) ==
    IF Len(m) < 2 THEN 0
    ELSE PathLength(SubSeq(m, 1, Len(m) - 1))
         + segment_len(<<m[Len(m) - 1].x, m[Len(m) - 1].y>>, <<m[Len(m)].x, m[Len(m)].y>>)

\* The same sum over the segments that end in a lineto
RECURSIVE InkLength(_)
InkLength(m) ==
    IF Len(m) < 2 THEN 0
    ELSE InkLength(SubSeq(m, 1, Len(m) - 1))
         + (IF m[Len(m)].kind = "lineto"
            THEN segment_len(<<m[Len(m) - 1].x, m[Len(m) - 1].y>>,
                             <<m[Len(m)].x, m[Len(m)].y>>)
            ELSE 0)

LastCallIs(op) == calls # <<>> /\ Last(calls).op = op

\* Kind and coordinates of an entry, coordinates rounded to 3 decimals
Shape3(e) == <<e.kind, Round3(e.x), Round3(e.y)>>

Shapes3(s) == [i \in 1..Len(s) |-> Shape3(s[i])]

\* The replay script run against a plotter object: every ad.<call> of the
\* script is made on p; input() prompts the operator and calls nothing.
RECURSIVE RunScript(_, _)
RunScript(p, stmts) ==
    IF stmts = <<>> THEN p
    ELSE LET s == Head(stmts)
             q == IF s.kind = "moveto" THEN moveto(p, s.x, s.y)
                  ELSE IF s.kind = "lineto" THEN lineto(p, s.x, s.y)
                  ELSE IF s.kind = "interactive" THEN interactive(p)
                  ELSE IF s.kind = "connect" THEN connect(p)
                  ELSE IF s.kind = "option" THEN [p EXCEPT !.options[s.opt] = s.x]
                  ELSE IF s.kind = "disconnect" THEN disconnect(p)
                  ELSE p
         IN  \* q is evaluated here, so that the evaluation stack stays shallow
             IF q.use_device \in BOOLEAN THEN RunScript(q, Tail(stmts)) ELSE q

\* The option values a replay script applies
ScriptOptions(stmts) ==
    [f \in {OptionNames[i] : i \in DOMAIN OptionNames} |->
        LET k == CHOOSE k \in DOMAIN stmts : stmts[k].kind = "option" /\ stmts[k].opt = f
        IN  stmts[k].x]

OptionsAsFunction(o) ==
    [f \in {OptionNames[i] : i \in DOMAIN OptionNames} |-> o[f]]

(***************************************************************************)
(* C1: after every call, in both modes, the travel distance is the sum of  *)
(* the distances between consecutive pen positions (the first position     *)
(* contributes 0) and the drawn length is that sum restricted to the       *)
(* segments made by a lineto with a prior position.                        *)
(***************************************************************************)
C1_DistanceAccounting ==
    /\ sim.pen_distance_in = PathLength(Moves(sim.command_log))
    /\ sim.drawn_length_in = InkLength(Moves(sim.command_log))
    /\ dev.pen_distance_in = PathLength(Moves(dev.driver))
    /\ dev.drawn_length_in = InkLength(Moves(dev.driver))

C1_Witness ==
    /\ Len(Moves(sim.command_log)) >= 3
    /\ sim.drawn_length_in > 0
    /\ sim.pen_distance_in > sim.drawn_length_in
    /\ \E i \in DOMAIN calls : calls[i].op = "confirmColorChange"

(***************************************************************************)
(* C2: confirmColorChange parks the pen first.  Every ColorChange entry of *)
(* the command log is directly preceded by MoveTo(0,0); every operator     *)
(* prompt in device mode is directly preceded, among the driver calls, by  *)
(* moveto(0,0); after the call the pen position is (0,0) in both modes.    *)
(***************************************************************************)
C2_ParkBeforeColor ==
    /\ \A i \in DOMAIN sim.command_log :
          sim.command_log[i].kind = "color" =>
             /\ i > 1
             /\ sim.command_log[i - 1] = Entry("moveto", 0, 0, <<>>, "")
    /\ \A i \in DOMAIN dev.driver :
          dev.driver[i].kind = "input" =>
             /\ i > 1
             /\ dev.driver[i - 1] = Entry("moveto", 0, 0, <<>>, "")
    /\ LastCallIs("confirmColorChange") =>
          /\ sim.pos = <<0, 0>>
          /\ dev.pos = <<0, 0>>
          /\ Last(sim.command_log).kind = "color"
          /\ Last(dev.driver).kind = "input"

C2_Witness ==
    /\ LastCallIs("confirmColorChange")
    /\ Len(calls) >= 2
    /\ calls[Len(calls) - 1].op = "lineto"
    /\ calls[Len(calls) - 1].x = 3000

(***************************************************************************)
(* C3: at the close of a session the moves and prompts of the replay       *)
(* script are, in kind, order, count and coordinates rounded to 3          *)
(* decimals, the moves and prompts the device-mode plotter issued for the  *)
(* same calls.                                                             *)
(***************************************************************************)
C3_ReplayMatchesDevice ==
    LastCallIs("disconnect") =>
        Shapes3(MovesAndPrompts(files.py[1])) = Shapes3(MovesAndPrompts(dev.driver))

(***************************************************************************)
(* C4: when the first entry of the command log is LineTo(x,y), the replay  *)
(* script has a synthesized moveto(x,y) followed by that entry's           *)
(* lineto(x,y); otherwise no move is synthesized.                          *)
(***************************************************************************)
C4_FirstLinetoKept ==
    (LastCallIs("disconnect") /\ sim.command_log # <<>>) =>
        LET first == sim.command_log[1]
            replayed == Moves(files.py[1])
        IN  IF first.kind = "lineto"
            THEN /\ Len(replayed) >= 2
                 /\ replayed[1].opt = "inserted to ensure valid start"
                 /\ Shape3(replayed[1]) = <<"moveto", Round3(first.x), Round3(first.y)>>
                 /\ Shape3(replayed[2]) = <<"lineto", Round3(first.x), Round3(first.y)>>
            ELSE \A i \in DOMAIN replayed :
                    replayed[i].opt # "inserted to ensure valid start"

(***************************************************************************)
(* C5: round trip.  The calls of the replay script, made on a fresh        *)
(* simulated plotter with the same page geometry, draw the raster of the   *)
(* recorded session: same segments, same pixel endpoints, same colours.    *)
(***************************************************************************)
C5_RoundTripRaster ==
    LastCallIs("disconnect") =>
        RunScript(DualPlotter(FALSE, PageBBox, sim.dpi, sim.line_px), files.py[1]).img
            = sim.img

(***************************************************************************)
(* C8: mode equivalence.  The moveto/lineto calls forwarded to the driver  *)
(* are the MoveTo/LineTo entries of the command log, and pen position,     *)
(* travel distance and drawn length agree after every call.                *)
(***************************************************************************)
C8_ModeEquivalence ==
    /\ Moves(dev.driver) = Moves(sim.command_log)
    /\ dev.pos = sim.pos
    /\ dev.pen_distance_in = sim.pen_distance_in
    /\ dev.drawn_length_in = sim.drawn_length_in

C8_Witness ==
    /\ \E i \in DOMAIN calls : calls[i].op = "outlinePage" /\ calls[i].flag
    /\ \E i \in DOMAIN calls : calls[i].op = "confirmColorChange"
    /\ LastCallIs("lineto")
    /\ dev.drawn_length_in > 0

(***************************************************************************)
(* C9 as stated: the option values written into the replay script are      *)
(* those the options structure held at the (first) connect(), whatever was *)
(* changed afterwards; without any connect() they are the values held when *)
(* this disconnect() finalizes.  connect() on the simulated plotter        *)
(* returns true.                                                           *)
(***************************************************************************)
C9_OptionsAtConnect ==
    /\ LastCallIs("disconnect") =>
          LET connects == {i \in DOMAIN calls : calls[i].op = "connect"}
              first == CHOOSE i \in connects : \A j \in connects : i <= j
          IN  ScriptOptions(files.py[1]) =
                 OptionsAsFunction(IF connects # {} THEN calls[first].options
                                                    ELSE Last(calls).options)
    /\ LastCallIs("connect") => ret.sim = <<TRUE>>

(***************************************************************************)
(* C9 amended: the option values written into the replay script are those  *)
(* the options structure held at the first call of the session that is a   *)
(* connect() or a disconnect(), whatever was changed afterwards.           *)
(* connect() on the simulated plotter returns true.                        *)
(***************************************************************************)
C9_OptionsAtFirstSnapshot ==
    /\ LastCallIs("disconnect") =>
          LET snaps == {i \in DOMAIN calls : calls[i].op \in {"connect", "disconnect"}}
              first == CHOOSE i \in snaps : \A j \in snaps : i <= j
          IN  ScriptOptions(files.py[1]) = OptionsAsFunction(calls[first].options)
    /\ LastCallIs("connect") => ret.sim = <<TRUE>>

C9_Witness ==
    /\ Len(calls) = 3
    /\ calls[1].op = "connect"
    /\ calls[2].op = "options"
    /\ calls[3].op = "disconnect"
    /\ sim.options # Options
    /\ ret.sim = <<TRUE>>

(***************************************************************************)
(* C10: a lineto issued while no pen position exists sets the position,    *)
(* leaves travel distance and drawn length unchanged, draws nothing, and   *)
(* appends exactly one LineTo entry (simulated) or forwards exactly one    *)
(* lineto to the driver (device).                                          *)
(***************************************************************************)
C10_FirstLineto ==
    [][ (calls' # calls /\ Last(calls').op = "lineto" /\ sim.pos = None) =>
          LET c == Last(calls')
              e == Entry("lineto", c.x, c.y, <<>>, "")
          IN  /\ sim'.pos = <<c.x, c.y>>
              /\ sim'.pen_distance_in = sim.pen_distance_in
              /\ sim'.drawn_length_in = sim.drawn_length_in
              /\ sim'.img = sim.img
              /\ sim'.command_log = Append(sim.command_log, e)
              /\ dev.pos = None
              /\ dev'.pos = <<c.x, c.y>>
              /\ dev'.pen_distance_in = dev.pen_distance_in
              /\ dev'.drawn_length_in = dev.drawn_length_in
              /\ dev'.driver = Append(dev.driver, e) ]_vars

C10_Witness ==
    /\ Len(calls) = 2
    /\ calls[1].op = "disconnect"
    /\ calls[2].op = "lineto"
    /\ sim.pos = <<3000, 4000>>
    /\ sim.command_log = << Entry("lineto", 3000, 4000, <<>>, "") >>

(***************************************************************************)
(* Observations of the text layout                                         *)
(***************************************************************************)
\* Width of a line as the claim measures it: its word widths plus one
\* space advance between adjacent words.
RECURSIVE SumWordWidths(_, _, _)
SumWordWidths(ws, height_in, letter_spacing_em) ==
    IF ws = <<>> THEN 0
    ELSE measure_word_width_inches(Head(ws), height_in, letter_spacing_em)
         + SumWordWidths(Tail(ws), height_in, letter_spacing_em)

MeasuredLineWidth(line, l) ==
    LET ws == Split(line)
    IN  SumWordWidths(ws, l.height_in, l.letter_spacing_em)
        + (Len(ws) - 1) *
          space_advance_inches(l.height_in, l.letter_spacing_em, l.word_spacing_em)

\* draw_text_line has drawn the whole line lines[li] at font_scale 1
LineDrawnUnscaled ==
    /\ layout.phase = "draw"
    /\ layout.font_scale = 100
    /\ layout.li <= Len(layout.lines)
    /\ layout.ci > Len(layout.lines[layout.li])

\* Cursor advance of draw_text_line over the line being drawn
DrawnAdvance == layout.cursor_x - layout.origin_x_in

(***************************************************************************)
(* C6: every line produced by draw_wrapped_text has a single word or an    *)
(* unscaled measured width of at most 0.6 * max_width_in.                  *)
(***************************************************************************)
C6_LineWithinBudget ==
    \A i \in DOMAIN layout.lines :
        \/ Len(Split(layout.lines[i])) = 1
        \/ 10 * MeasuredLineWidth(layout.lines[i], layout) <= 6 * layout.max_width_in

C6_Witness ==
    /\ layout.phase = "returned"
    /\ Len(layout.lines) = 2
    /\ Len(Split(layout.lines[1])) = 2
    /\ 10 * MeasuredLineWidth(layout.lines[1], layout) = 6 * layout.max_width_in

(***************************************************************************)
(* C7: layout/draw consistency.  The measured width of every word is the   *)
(* cursor advance draw_text_line makes for it at font_scale 1, whatever    *)
(* the glyphs' own 'w' fields; the width accumulated while wrapping a      *)
(* line, spaces included (with or without a word-spacing override), is the *)
(* measured width of that line and the cursor advance when it is drawn at  *)
(* font_scale 1; a two-letter word at height 0.5 with tracking 0.12        *)
(* advances the cursor by 0.72 inch.                                       *)
(***************************************************************************)
C7_MeasureEqualsDraw ==
    /\ (layout.phase = "wrap" /\ layout.current_words # <<>>) =>
          layout.current_width = MeasuredLineWidth(Join(layout.current_words), layout)
    /\ LineDrawnUnscaled =>
          LET line == layout.lines[layout.li]
              ws == Split(line)
          IN  /\ DrawnAdvance = MeasuredLineWidth(line, layout)
              /\ Len(ws) = 1 =>
                    DrawnAdvance = measure_word_width_inches(
                                      ws[1], layout.height_in, layout.letter_spacing_em)
              /\ (Len(ws) = 1 /\ Len(ws[1]) = 2 /\ layout.height_in = 50
                    /\ layout.letter_spacing_em = 12) => DrawnAdvance = 7200

C7_Witness ==
    /\ LineDrawnUnscaled
    /\ Len(layout.lines) = 2
    /\ layout.li = 2
    /\ Len(Split(layout.lines[1])) = 2
    /\ layout.word_spacing_em # None
    /\ layout.height_in = 20
    /\ DrawnAdvance = 1440

(***************************************************************************)
(* C11: the command log of the simulated plotter is append-only.  Each     *)
(* moveto appends exactly one MoveTo entry and each lineto exactly one     *)
(* LineTo entry, with the call's coordinates; each confirmColorChange      *)
(* appends MoveTo(0,0) followed by ColorChange(name); interactive, connect *)
(* and disconnect append nothing; whatever the call, the log before it is  *)
(* a prefix of the log after it.  The device plotter keeps no log.         *)
(***************************************************************************)
IsPrefix(s, t) == Len(s) <= Len(t) /\ SubSeq(t, 1, Len(s)) = s

Appended(s, t) == SubSeq(t, Len(s) + 1, Len(t))

C11_LogAppendOnly ==
    [][calls' # calls =>
        LET c == Last(calls')
            added == Appended(sim.command_log, sim'.command_log)
        IN  /\ IsPrefix(sim.command_log, sim'.command_log)
            /\ dev'.command_log = <<>>
            /\ c.op = "moveto" => added = << Entry("moveto", c.x, c.y, <<>>, "") >>
            /\ c.op = "lineto" => added = << Entry("lineto", c.x, c.y, <<>>, "") >>
            /\ c.op = "confirmColorChange" =>
                   added = << Entry("moveto", 0, 0, <<>>, ""),
                              Entry("color", 0, 0, c.name, "") >>
            /\ c.op \in {"interactive", "connect", "disconnect"} => added = <<>>
    ]_vars

\* a colour change appended to a log that a disconnect has already written out
C11_Witness ==
    /\ Len(calls) = 3
    /\ calls[1].op = "lineto"
    /\ calls[2].op = "disconnect"
    /\ calls[3].op = "confirmColorChange"
    /\ Len(sim.command_log) = 3

(***************************************************************************)
(* C12: colour resolution never fails.  A name that, trimmed and           *)
(* upper-cased, is one of the ten table names resolves to that entry       *)
(* whatever its case or surrounding blanks; any other name and any value   *)
(* that is not a string resolve to the RGB of BLACK.  After a              *)
(* confirmColorChange the simulated plotter's stroke colour is that RGB    *)
(* and the last log entry is ColorChange with the text the caller gave.    *)
(***************************************************************************)
Lower(s) == [i \in 1..Len(s) |-> LowerChar(s[i])]

Padded(s) == <<" ">> \o s \o <<" ", " ">>

C12_ColorResolution ==
    /\ \A n \in DOMAIN COLOR_TABLE :
           /\ rgb_for_name(PyStr(n)) = COLOR_TABLE[n]
           /\ rgb_for_name(PyStr(Lower(n))) = COLOR_TABLE[n]
           /\ rgb_for_name(PyStr(Padded(Lower(n)))) = COLOR_TABLE[n]
           /\ rgb_for_name(PyInt(n)) = <<0, 0, 0>>
    /\ rgb_for_name(PyStr(<<"T","E","A","L">>)) = <<0, 0, 0>>
    /\ rgb_for_name(PyStr(<<>>)) = <<0, 0, 0>>
    /\ rgb_for_name(PyInt(<<"5">>)) = <<0, 0, 0>>
    /\ LastCallIs("confirmColorChange") =>
           LET c == Last(calls)
           IN  /\ sim.stroke_rgb =
                      IF c.name \in {RED, <<" ","r","e","d">>}
                      THEN <<220, 20, 60>> ELSE <<0, 0, 0>>
               /\ sim.stroke_color_name = c.name
               /\ Last(sim.command_log) = Entry("color", 0, 0, c.name, "")

\* a lower-case padded name resolved to RED after an unknown name gave black
C12_Witness ==
    /\ Len(calls) = 2
    /\ calls[1].op = "confirmColorChange" /\ calls[1].name = <<"T","E","A","L">>
    /\ calls[2].op = "confirmColorChange" /\ calls[2].name = <<" ","r","e","d">>
    /\ sim.stroke_rgb = <<220, 20, 60>>

(***************************************************************************)
(* C13: outlinePage(do_dots=False) issues exactly five moveto calls and no *)
(* lineto, to (xmin,ymin), (xmin,ymax), (xmax,ymax), (xmax,ymin) and       *)
(* (xmin,ymin) in that order, and leaves the pen at the minimum corner.    *)
(* With do_dots=True the same five moveto calls are each, except the last, *)
(* followed by one lineto to the corner just reached: four lineto calls of *)
(* zero length, so the drawn length is the same before and after the call. *)
(***************************************************************************)
Corners(p) ==
    << <<p.xmin, p.ymin>>, <<p.xmin, p.ymax>>, <<p.xmax, p.ymax>>,
       <<p.xmax, p.ymin>>, <<p.xmin, p.ymin>> >>

IsMoveto(e) == e.kind = "moveto"

IsLineto(e) == e.kind = "lineto"

OutlineIssued(p, q, issued, do_dots) ==
    LET mv == SelectSeq(issued, IsMoveto)
        ln == SelectSeq(issued, IsLineto)
    IN  /\ Len(mv) = 5
        /\ \A i \in 1..5 :
               mv[i] = Entry("moveto", Corners(p)[i][1], Corners(p)[i][2], <<>>, "")
        /\ Len(ln) = IF do_dots THEN 4 ELSE 0
        /\ Len(issued) = Len(mv) + Len(ln)
        /\ do_dots =>
               \A i \in 1..4 :
                   /\ issued[2 * i - 1] = mv[i]
                   /\ issued[2 * i] =
                          Entry("lineto", Corners(p)[i][1], Corners(p)[i][2], <<>>, "")
        /\ q.pos = <<p.xmin, p.ymin>>
        /\ q.drawn_length_in = p.drawn_length_in

C13_OutlinePage ==
    [][(calls' # calls /\ Last(calls').op = "outlinePage") =>
        /\ IsPrefix(sim.command_log, sim'.command_log)
        /\ IsPrefix(dev.driver, dev'.driver)
        /\ OutlineIssued(sim, sim', Appended(sim.command_log, sim'.command_log),
                         Last(calls').flag)
        /\ OutlineIssued(dev, dev', Appended(dev.driver, dev'.driver),
                         Last(calls').flag)
    ]_vars

\* a dotted outline issued after ink was already on the page
C13_Witness ==
    /\ LastCallIs("outlinePage")
    /\ Last(calls).flag
    /\ sim.drawn_length_in > 0
    /\ Len(sim.img) >= 5

(***************************************************************************)
(* C14: the lines draw_wrapped_text computes do not depend on font_scale:  *)
(* a call with the same text, height_in, max_width_in, letter_spacing_em   *)
(* and word_spacing_em and any other font_scale computes the same lines.   *)
(* font_scale shows only in the drawing: the baseline of line k is the     *)
(* first baseline plus (k-1) times the scaled line spacing, and the cursor *)
(* advances by the advances of the scaled height.                          *)
(***************************************************************************)
OtherScaleCall(font_scale) ==
    wrapped_text_call(layout.text, <<layout.origin_x_in, layout.baseline_y_in>>,
                      layout.height_in, layout.max_width_in,
                      layout.letter_spacing_em, layout.word_spacing_em,
                      None, font_scale)

SpacesBefore(line, ci) == Cardinality({k \in 1..(ci - 1) : line[k] = " "})

C14_LinesIgnoreFontScale ==
    /\ layout.phase \in {"draw", "returned"} =>
           \A fs \in FontScaleInputs :
               wrapped_lines(OtherScaleCall(fs)) = layout.lines
    /\ layout.phase = "draw" =>
           LET h == (layout.height_in * layout.font_scale) \div 100
               line == layout.lines[layout.li]
               nsp == SpacesBefore(line, layout.ci)
               space == IF layout.word_spacing_em = None
                        THEN (60 + layout.letter_spacing_em) * h
                        ELSE layout.word_spacing_em[1] * h
           IN  /\ layout.y = layout.baseline_y_in + (layout.li - 1) *
                       ((layout.line_spacing_in[1] * layout.font_scale) \div 100)
               /\ layout.cursor_x = layout.origin_x_in + nsp * space +
                       (layout.ci - 1 - nsp) * (60 + layout.letter_spacing_em) * h

\* a scaled call that draws its second line, where wrapping with the scaled
\* height would have broken the first line earlier
C14_Witness ==
    /\ layout.phase = "draw"
    /\ layout.font_scale = 150
    /\ layout.li = 2
    /\ layout.ci > 1
    /\ Len(Split(layout.lines[1])) = 2
    /\ 10 * MeasuredLineWidth(layout.lines[1],
                              [layout EXCEPT !.height_in = (@ * 150) \div 100])
           > 6 * layout.max_width_in

(***************************************************************************)
(* C15: in device mode a KeyboardInterrupt raised while confirmColorChange *)
(* waits at its prompt is caught: no exception escapes, the call returns   *)
(* with moveto(0,0) already sent to the driver and the pen position at     *)
(* (0,0), and the moveto and lineto calls that follow are carried out as   *)
(* after an acknowledged prompt: sent to the driver one for one, with the  *)
(* position and both distances those calls give when nothing interrupts.   *)
(***************************************************************************)
Interrupted(c) == c.op = "confirmColorChange" /\ c.flag

C15_InterruptCaught ==
    /\ ret.raised = None
    /\ (LastCallIs("confirmColorChange") /\ Last(calls).flag) =>
           /\ dev.pos = <<0, 0>>
           /\ Len(dev.driver) >= 2
           /\ dev.driver[Len(dev.driver) - 1] = Entry("moveto", 0, 0, <<>>, "")
           /\ Last(dev.driver) =
                  Entry("input", 0, 0, Last(calls).name, "KeyboardInterrupt")
    /\ (\E i \in 1..Len(calls) : Interrupted(calls[i])) =>
           /\ Moves(dev.driver) = Moves(sim.command_log)
           /\ dev.pos = sim.pos
           /\ dev.pen_distance_in = sim.pen_distance_in
           /\ dev.drawn_length_in = sim.drawn_length_in

\* a line drawn from (0,0) right after an interrupted prompt
C15_Witness ==
    /\ Len(calls) >= 2
    /\ Interrupted(calls[1])
    /\ calls[2].op = "lineto"
    /\ dev.drawn_length_in > 0
    /\ Last(dev.driver).kind = "lineto"

(***************************************************************************)
(* C16: the rotation proxy passes each moveto and each lineto on as        *)
(* exactly one call of the same kind, in the same order, with the point    *)
(* rotated about the pivot by the proxy's angle (unchanged when the angle  *)
(* is a multiple of 360 degrees).  confirmColorChange, connect,            *)
(* disconnect, outlinePage and an assignment to an option act on the       *)
(* wrapped plotter exactly as a direct call with the same arguments: the   *)
(* moves they make are not rotated.                                        *)
(***************************************************************************)
QuarterTurns(r) == (r.angle_deg % 360) \div 90

Rotated(r, x, y) ==
    CASE QuarterTurns(r) = 0 -> <<x, y>>
      [] QuarterTurns(r) = 1 -> <<r.cx - (y - r.cy), r.cy + (x - r.cx)>>
      [] QuarterTurns(r) = 2 -> <<2 * r.cx - x, 2 * r.cy - y>>
      [] QuarterTurns(r) = 3 -> <<r.cx + (y - r.cy), r.cy - (x - r.cx)>>

C16_RotationProxy ==
    [][calls' # calls =>
        LET c == Last(calls')
            logged == Appended(sim.command_log, sim'.command_log)
            sent == Appended(dev.driver, dev'.driver)
        IN  /\ rot' = rot
            /\ IsPrefix(sim.command_log, sim'.command_log)
            /\ IsPrefix(dev.driver, dev'.driver)
            /\ c.op \in {"moveto", "lineto"} =>
                   LET XY == Rotated(rot, c.x, c.y)
                   IN  /\ logged = << Entry(c.op, XY[1], XY[2], <<>>, "") >>
                       /\ sent = logged
                       /\ sim'.pos = XY /\ dev'.pos = XY
            /\ c.op = "confirmColorChange" =>
                   /\ logged = << Entry("moveto", 0, 0, <<>>, ""),
                                  Entry("color", 0, 0, c.name, "") >>
                   /\ sent = << Entry("moveto", 0, 0, <<>>, ""),
                                Entry("input", 0, 0, c.name, "") >>
                   /\ sim'.pos = <<0, 0>> /\ dev'.pos = <<0, 0>>
            /\ c.op = "outlinePage" =>
                   /\ OutlineIssued(sim, sim', logged, c.flag)
                   /\ OutlineIssued(dev, dev', sent, c.flag)
            /\ c.op = "connect" =>
                   /\ logged = <<>>
                   /\ sent = << Entry("connect", 0, 0, <<>>, "") >>
                   /\ ret'.sim = <<TRUE>> /\ ret'.dev = <<c.flag>>
            /\ c.op = "disconnect" =>
                   /\ logged = <<>>
                   /\ sent = << Entry("disconnect", 0, 0, <<>>, "") >>
                   /\ files'.py = <<write_replay_script(sim)>>
            /\ c.op = "options" =>
                   /\ logged = <<>> /\ sent = <<>>
                   /\ sim'.options = [sim.options EXCEPT ![c.opt] = c.x]
                   /\ dev'.options = [dev.options EXCEPT ![c.opt] = c.x]
    ]_vars

\* a quarter turn: a rotated move, an unrotated colour change, a rotated line
C16_Witness ==
    /\ QuarterTurns(rot) = 1
    /\ Len(calls) = 3
    /\ calls[1].op = "moveto" /\ calls[1].x = 3000 /\ calls[1].y = 0
    /\ calls[2].op = "confirmColorChange"
    /\ calls[3].op = "lineto" /\ calls[3].x = 3000 /\ calls[3].y = 4000
    /\ sim.pos = <<0 - 1000, 4000>>
    /\ sim.drawn_length_in > 0

(***************************************************************************)
(* C17: a disconnect() of a simulated session whose command log is empty   *)
(* still writes a complete replay script: interactive, the five option     *)
(* assignments with the snapshot values, connect, the placeholder saying   *)
(* that no movements were recorded, and disconnect; there is no moveto,    *)
(* lineto or prompt between connect and disconnect.                        *)
(***************************************************************************)
Kinds(script) == [i \in 1..Len(script) |-> script[i].kind]

C17_EmptySessionScript ==
    (LastCallIs("disconnect") /\ sim.command_log = <<>>) =>
        /\ files.py # None
        /\ LET script == files.py[1]
           IN  /\ Kinds(script) =
                      << "interactive", "option", "option", "option", "option",
                         "option", "connect", "comment", "disconnect" >>
               /\ \A i \in 1..5 :
                      /\ script[i + 1].opt = OptionNames[i]
                      /\ script[i + 1].x = sim.options_snapshot[1][OptionNames[i]]
               /\ script[8].opt = "No movements were recorded"
               /\ MovesAndPrompts(script) = <<>>

\* an empty session closed after an option was changed and connect() called
C17_Witness ==
    /\ Len(calls) = 3
    /\ calls[1].op = "options"
    /\ calls[2].op = "connect"
    /\ calls[3].op = "disconnect"
    /\ sim.command_log = <<>>
    /\ files.py # None

(***************************************************************************)
(* C18: drawing one character issues, for each stroke of its glyph in      *)
(* order, one moveto to the stroke's first point and one lineto to each    *)
(* further point, so as many moveto calls as strokes and as many lineto    *)
(* calls as points beyond the first of each stroke.  A blank issues no     *)
(* call.  The glyph is looked up under the lower-cased character, and a    *)
(* character the font lacks is drawn with the strokes of '?'; every        *)
(* drawn glyph advances the cursor by the same amount.                     *)
(***************************************************************************)
RECURSIVE GlyphCalls(_, _, _, _, _)
GlyphCalls(strokes, x, y, sx, sy) ==
    IF strokes = <<>> THEN <<>>
    ELSE [i \in 1..Len(Head(strokes)) |->
             Entry(IF i = 1 THEN "moveto" ELSE "lineto",
                   x + (Head(strokes)[i][1] * sx) \div 100,
                   y + (Head(strokes)[i][2] * sy) \div 100, <<>>, "")]
         \o GlyphCalls(Tail(strokes), x, y, sx, sy)

RECURSIVE PointCount(_)
PointCount(strokes) ==
    IF strokes = <<>> THEN 0 ELSE Len(Head(strokes)) + PointCount(Tail(strokes))

CharDrawn ==
    /\ layout.phase = "draw"
    /\ layout'.phase = "draw"
    /\ layout'.li = layout.li
    /\ layout'.ci = layout.ci + 1

C18_GlyphCalls ==
    [][CharDrawn =>
        LET ch == layout.lines[layout.li][layout.ci]
            key == LowerChar(ch)
            g == IF key \in DOMAIN FONT THEN FONT[key] ELSE FONT["?"]
            h == (layout.height_in * layout.font_scale) \div 100
            issued == Appended(sim.command_log, sim'.command_log)
            sent == Appended(dev.driver, dev'.driver)
        IN  /\ IsPrefix(sim.command_log, sim'.command_log)
            /\ IsPrefix(dev.driver, dev'.driver)
            /\ issued = GlyphCalls(g.strokes, layout.cursor_x, layout.y, 60 * h, 100 * h)
            /\ sent = issued
            /\ Len(SelectSeq(issued, IsMoveto)) = Len(g.strokes)
            /\ Len(SelectSeq(issued, IsLineto)) = PointCount(g.strokes) - Len(g.strokes)
            /\ ch = " " => issued = <<>>
            /\ ch = "I" => g = FONT["i"] /\ Len(issued) = 6
            /\ ch = "~" => g = FONT["?"] /\ Len(issued) = 7
            /\ ch # " " =>
                   layout'.cursor_x = layout.cursor_x + (60 + layout.letter_spacing_em) * h
    ]_vars

\* "I~" drawn: the strokes of 'i', then the strokes of '?'
C18_Witness ==
    /\ layout.phase = "draw"
    /\ layout.li = 1
    /\ layout.ci = 3
    /\ layout.lines[1][1] = "I"
    /\ layout.lines[1][2] = "~"
    /\ Len(sim.command_log) = 13
    /\ Len(dev.driver) = 13

(***************************************************************************)
(* C19: wrapping is greedy.  In the wrapping loop the current line is      *)
(* closed exactly when it is not empty and its width plus one space        *)
(* advance plus the width of the next word is greater than 0.6 times       *)
(* max_width_in; the next line then starts with that word; otherwise the   *)
(* word joins the current line (also when the sum equals the budget).      *)
(* Hence, for any two consecutive lines, the width of the earlier line     *)
(* plus a space advance plus the width of the first word of the later      *)
(* line is greater than the budget.                                        *)
(***************************************************************************)
SpaceWidth(l) ==
    IF l.word_spacing_em = None THEN (60 + l.letter_spacing_em) * l.height_in
                                ELSE l.word_spacing_em[1] * l.height_in

WordWidth(w, l) == Len(w) * (60 + l.letter_spacing_em) * l.height_in

\* measured width of a line given as its words
WordsWidth(ws, l) ==
    LET chars == Len(Join(ws)) - (Len(ws) - 1)
    IN  chars * (60 + l.letter_spacing_em) * l.height_in + (Len(ws) - 1) * SpaceWidth(l)

Overflows(ws, w, l) ==
    10 * (WordsWidth(ws, l) + SpaceWidth(l) + WordWidth(w, l)) > 6 * l.max_width_in

WordWrapped ==
    /\ layout.phase = "wrap"
    /\ layout'.phase = "wrap"
    /\ layout'.wi = layout.wi + 1

C19_GreedyStep ==
    WordWrapped =>
        LET w == layout.words[layout.wi]
            closes == layout.current_words # <<>> /\ Overflows(layout.current_words, w, layout)
        IN  /\ closes =>
                   /\ layout'.lines = Append(layout.lines, Join(layout.current_words))
                   /\ layout'.current_words = <<w>>
            /\ ~closes =>
                   /\ layout'.lines = layout.lines
                   /\ layout'.current_words = Append(layout.current_words, w)

C19_ConsecutiveLines ==
    /\ \A i \in 1..(Len(layout.lines) - 1) :
           Overflows(Split(layout.lines[i]), Split(layout.lines[i + 1])[1], layout)
    /\ (layout.phase = "wrap" /\ layout.lines # <<>>) =>
           Overflows(Split(Last(layout.lines)), layout.current_words[1], layout)

RECURSIVE WordsOfLines(_)
WordsOfLines(lines) ==
    IF lines = <<>> THEN <<>> ELSE Split(Head(lines)) \o WordsOfLines(Tail(lines))

TooWide(w, l) == 10 * WordWidth(w, l) > 6 * l.max_width_in

C20_EveryWordOnce ==
    /\ layout.phase = "wrap" =>
           WordsOfLines(layout.lines) \o layout.current_words =
               SubSeq(Split(layout.text), 1, layout.wi - 1)
    /\ layout.phase \in {"draw", "returned"} =>
           WordsOfLines(layout.lines) = Split(layout.text)
    /\ \A i \in 1..Len(layout.lines) :
           /\ layout.lines[i] # <<>>
           /\ Split(layout.lines[i]) # <<>>
           /\ \A k \in 1..Len(Split(layout.lines[i])) :
                  TooWide(Split(layout.lines[i])[k], layout) =>
                      Len(Split(layout.lines[i])) = 1
    /\ (layout.phase # "called" /\ Split(layout.text) = <<>>) =>
           /\ layout.phase = "returned"
           /\ layout.lines = <<>>
           /\ layout.result = None
           /\ sim.command_log = <<>>
           /\ dev.driver = <<>>

\* blanks doubled in the input; the second word is wider than the budget
C20_Witness ==
    /\ layout.phase = "returned"
    /\ Len(layout.text) = 5
    /\ Len(layout.lines) = 2
    /\ Len(layout.lines[1]) = 1
    /\ Len(layout.lines[2]) = 2
    /\ TooWide(layout.lines[2], layout)
    /\ layout.result = <<2>>

(***************************************************************************)
(* C21: in simulated mode a moveto changes only the pen position, the      *)
(* travel distance and the command log, to which it appends one MoveTo:    *)
(* the raster, the stroke colour, the drawn length, the options and the    *)
(* options snapshot stay as they were.  The raster grows only by lineto:   *)
(* by one segment for each lineto made with a prior position, whether      *)
(* called directly or by outlinePage for its dots, and by nothing else.    *)
(***************************************************************************)
\* lineto entries among the appended ones that were made with a position
LinetosWithPosition(p, appended) ==
    Cardinality({i \in 1..Len(appended) :
                    appended[i].kind = "lineto" /\ (i > 1 \/ p.pos # None)})

C21_MovetoFrame ==
    [][calls' # calls =>
        LET c == Last(calls')
            logged == Appended(sim.command_log, sim'.command_log)
        IN  /\ c.op = "moveto" =>
                   /\ sim' = [sim EXCEPT !.pos = <<c.x, c.y>>,
                                         !.pen_distance_in = sim'.pen_distance_in,
                                         !.command_log =
                                             Append(@, Entry("moveto", c.x, c.y, <<>>, ""))]
                   /\ sim'.pen_distance_in >= sim.pen_distance_in
                   /\ sim.pos = None => sim'.pen_distance_in = sim.pen_distance_in
            /\ IsPrefix(sim.img, sim'.img)
            /\ Len(sim'.img) = Len(sim.img) + LinetosWithPosition(sim, logged)
            /\ sim'.img # sim.img =>
                   \/ c.op = "lineto" /\ sim.pos # None
                   \/ c.op = "outlinePage" /\ c.flag
    ]_vars

\* a moveto issued with a red segment already on the raster
C21_Witness ==
    /\ Len(calls) = 3
    /\ calls[1].op = "confirmColorChange"
    /\ calls[2].op = "lineto"
    /\ calls[3].op = "moveto"
    /\ Len(sim.img) = 1
    /\ sim.stroke_rgb = <<220, 20, 60>>
    /\ sim.pen_distance_in > sim.drawn_length_in
    /\ sim.drawn_length_in > 0

(***************************************************************************)
(* C22: in simulated mode every segment that a lineto adds to the raster   *)
(* has the RGB resolved from the latest confirmColorChange issued before   *)
(* it, black when there was none.  moveto, lineto, connect, interactive    *)
(* (and outlinePage, disconnect) leave the current stroke colour as it is, *)
(* and the segments already on the raster keep their colour whatever is    *)
(* called later.                                                           *)
(***************************************************************************)
ResolvedRGB(name) ==
    IF name \in {RED, <<" ","r","e","d">>} THEN <<220, 20, 60>> ELSE <<0, 0, 0>>

ColorCalls(history) == {i \in 1..Len(history) : history[i].op = "confirmColorChange"}

LatestColor(history) ==
    IF ColorCalls(history) = {} THEN <<0, 0, 0>>
    ELSE LET last == CHOOSE i \in ColorCalls(history) :
                         \A j \in ColorCalls(history) : j <= i
         IN  ResolvedRGB(history[last].name)

C22_SegmentColor ==
    [][calls' # calls =>
        LET c == Last(calls')
            drawn == Appended(sim.img, sim'.img)
        IN  /\ IsPrefix(sim.img, sim'.img)
            /\ \A k \in 1..Len(drawn) : drawn[k].fill = LatestColor(calls)
            /\ c.op # "confirmColorChange" =>
                   /\ sim'.stroke_rgb = sim.stroke_rgb
                   /\ sim'.stroke_color_name = sim.stroke_color_name
            /\ sim'.stroke_rgb = LatestColor(calls')
    ]_vars

\* a red segment that stays red after the colour was changed to an unknown name
C22_Witness ==
    /\ Len(calls) = 3
    /\ calls[1].op = "confirmColorChange" /\ calls[1].name = <<" ","r","e","d">>
    /\ calls[2].op = "lineto"
    /\ calls[3].op = "confirmColorChange" /\ calls[3].name = <<"T","E","A","L">>
    /\ Len(sim.img) = 1
    /\ sim.img[1].fill = <<220, 20, 60>>
    /\ sim.stroke_rgb = <<0, 0, 0>>

(***************************************************************************)
(* C23: in every state of a session, in both modes, the drawn length is at *)
(* least 0 and at most the travel distance.  No call makes either of them  *)
(* smaller, and the pen-up share (travel minus drawn) grows only on a      *)
(* moveto, a confirmColorChange or an outlinePage (by their own moveto     *)
(* calls): a lineto adds the same length to both, and interactive, connect *)
(* and disconnect change neither.                                          *)
(***************************************************************************)
PenUp(p) == p.pen_distance_in - p.drawn_length_in

DistancesOrdered(p) == 0 <= p.drawn_length_in /\ p.drawn_length_in <= p.pen_distance_in

DistancesStep(p, q, op) ==
    /\ q.pen_distance_in >= p.pen_distance_in
    /\ q.drawn_length_in >= p.drawn_length_in
    /\ PenUp(q) >= PenUp(p)
    /\ PenUp(q) > PenUp(p) => op \in {"moveto", "confirmColorChange", "outlinePage"}
    /\ op = "lineto" => PenUp(q) = PenUp(p)
    /\ op \in {"interactive", "connect", "disconnect"} =>
           /\ q.pen_distance_in = p.pen_distance_in
           /\ q.drawn_length_in = p.drawn_length_in

C23_Step ==
    calls' # calls =>
        /\ DistancesStep(sim, sim', Last(calls').op)
        /\ DistancesStep(dev, dev', Last(calls').op)

C23_Ordered == DistancesOrdered(sim) /\ DistancesOrdered(dev)

C23_DrawnWithinTravel == []C23_Ordered /\ [][C23_Step]_vars

\* ink on the page, then an outline whose moves add pen-up travel only
C23_Witness ==
    /\ Len(calls) = 3
    /\ calls[2].op = "lineto"
    /\ calls[3].op = "outlinePage"
    /\ dev.drawn_length_in > 0
    /\ PenUp(dev) > 0
    /\ PenUp(sim) = PenUp(dev)

(***************************************************************************)
(* C24: the options snapshot of the simulated plotter is set once.  While  *)
(* it is unset, only connect() and disconnect() set it, to the option      *)
(* values of that moment.  Once set, no call changes it: a later connect() *)
(* after an option was modified keeps it, and a later disconnect() writes  *)
(* the replay script with the option values the earlier one wrote.         *)
(***************************************************************************)
C24_SnapshotSetOnce ==
    [][calls' # calls =>
        LET c == Last(calls')
        IN  /\ sim.options_snapshot # None =>
                   sim'.options_snapshot = sim.options_snapshot
            /\ sim.options_snapshot = None =>
                   IF c.op \in {"connect", "disconnect"}
                   THEN /\ sim'.options_snapshot # None
                        /\ \A i \in 1..5 :
                               sim'.options_snapshot[1][OptionNames[i]] =
                                   sim.options[OptionNames[i]]
                   ELSE sim'.options_snapshot = None
            /\ (c.op = "disconnect" /\ files.py # None) =>
                   ScriptOptions(files'.py[1]) = ScriptOptions(files.py[1])
            /\ c.op = "disconnect" =>
                   \A i \in 1..5 :
                       files'.py[1][i + 1].x = sim'.options_snapshot[1][OptionNames[i]]
    ]_vars

\* a second connect() made after an option was changed: the snapshot still
\* holds the value of the first connect()
C24_Witness ==
    /\ Len(calls) = 3
    /\ calls[1].op = "connect"
    /\ calls[2].op = "options"
    /\ calls[3].op = "connect"
    /\ sim.options_snapshot # None
    /\ \E i \in 1..5 :
           sim.options_snapshot[1][OptionNames[i]] # sim.options[OptionNames[i]]

====
